---------------------------- MODULE Spec2Model ----------------------------
(***************************************************************************)
(* EASGraphQLClient.fetchAttestations (components/js-eas-sdk-demo/         *)
(* eas-client.ts), in its two draft variants, run against an EAS GraphQL   *)
(* indexer.  One run is a chain of awaits: the combined query, then the    *)
(* location query.  Every action is the code between two awaits.           *)
(*                                                                         *)
(* JavaScript values are modelled as follows.  A string is a string; null  *)
(* and undefined in a string position are the strings Null and Undefined.  *)
(* An object that may be null is a sequence of length 0 (null) or 1.       *)
(***************************************************************************)
EXTENDS Integers, Sequences, FiniteSets, TLC

VARIABLES
    pc,                 \* position of the run in fetchAttestations
    variant,            \* which draft of the class is running (1: lines 18-216, 2: lines 235-438)
    chainId,            \* argument of fetchAttestations
    attestationId,      \* argument of fetchAttestations
    endpoint,           \* local of fetchAttestations
    requests,           \* the POST requests issued by fetch(), in order
    initialResp,        \* the HTTP response the combined query received (<<>> before)
    locationResp,       \* the HTTP response the location query received (<<>> before)
    locationUID,        \* local of fetchAttestations, set by fetchMainAttestations
    attestations,       \* local of fetchAttestations, set by fetchMainAttestations
    locationAttestation,\* local of fetchAttestations, set by fetchLocationData
    error               \* the Error the promise was rejected with, NoError otherwise

vars == <<pc, variant, chainId, attestationId, endpoint, requests, initialResp,
          locationResp, locationUID, attestations, locationAttestation, error>>

\* testPolygonContainment (polygon containment test of the same component)
VARIABLES
    epc,                  \* position of the call in testPolygonContainment
    eAttestations,        \* argument attestations
    eLocationAttestation, \* argument locationAttestation (<<>> before the call)
    polygonData,          \* local polygonData (<<>> before it is set)
    turfPolygon,          \* local turfPolygon (<<>> before it is set)
    eIndex,               \* how many elements Array.map has passed to its callback
    containmentResults,   \* the results Array.map has collected
    eReturned,            \* the returned list, wrapped (<<>> while nothing is returned)
    eError,               \* the error thrown out of the call
    calls                 \* the calls made to data-utils and turf, in order

evalVars == <<epc, eAttestations, eLocationAttestation, polygonData, turfPolygon,
              eIndex, containmentResults, eReturned, eError, calls>>

\* two calls of fetchAttestations on one client, running concurrently
VARIABLES
    cstore,     \* the attestations of the store, in the order it returns them
    cvariant,   \* the draft of the class the client is an instance of
    crun,       \* per call: position, arguments, request in flight, transport met, outcome
    clocals     \* per stack frame: the locals of fetchAttestations

concVars == <<cstore, cvariant, crun, clocals>>

\* every variable of the module
allVars == <<vars, evalVars, concVars>>

\* no error thrown out of testPolygonContainment
NoEvalError == [kind |-> "none", at |-> 0]

\* testPolygonContainment has not been called
EvalIdle ==
    /\ epc = "Idle"
    /\ eAttestations = <<>>
    /\ eLocationAttestation = <<>>
    /\ polygonData = <<>>
    /\ turfPolygon = <<>>
    /\ eIndex = 0
    /\ containmentResults = <<>>
    /\ eReturned = <<>>
    /\ eError = NoEvalError
    /\ calls = <<>>

-----------------------------------------------------------------------------
(* Bounds of the model *)

\* the longest list of referencing attestations the store returns
MaxRefs == 2

\* chain ids passed to fetchAttestations: the three supported ones and others
ChainIds == {0, 1, 5, 10, 137, 11155111}

\* attestation ids passed to fetchAttestations
RootIds == {"0xAAA", "0xBBB"}

\* ids of the attestations of the store
Ids == {"0xAAA", "0xBBB", "0xCCC", "0xLOC"}

SchemaIds == {"0xS1", "0xS2"}

-----------------------------------------------------------------------------
(* JavaScript values *)

Null == "<null>"
Undefined == "<undefined>"

\* a slip in the truthiness test: only null is taken for "no locationUID"
Falsy_NullOnly(x) == x = Null

\* !x for a value in a string position
Falsy(x) == x \in {Null, Undefined, ""}

\* refUID of an attestation that references nothing (EAS: the zero bytes32)
ZeroUID == "0x000"

-----------------------------------------------------------------------------
(* Errors, named after the taxonomy; the message of the source in comments *)

NoError == "none"
UnsupportedChain == "UnsupportedChain"                      \* `Unsupported chainId: ${chainId}`
GraphQLError == "GraphQLError"                              \* `GraphQL error: ${response.status}`
NoDataReturned == "NoDataReturned"                          \* `No data returned from GraphQL query`
StoreUnreachable == "StoreUnreachable"                      \* fetch() rejects
RootAttestationNotFound == "RootAttestationNotFound"        \* `No attestation found for attestationId: ...`
LocationReferenceMissing == "LocationReferenceMissing"      \* `No locationUID found for attestation ...`
NoReferencingAttestations == "NoReferencingAttestations"    \* `No attestations found [referencing|for] attestationId: ...`

-----------------------------------------------------------------------------
(* decodedDataJson: the payload of a raw attestation.                       *)
(* kind "null": the field is null; "malformed": a string the decoder       *)
(* rejects; "json": a string holding an array of {name, value} entries.    *)

Entry(n, v) == [name |-> n, value |-> v]

NullJson == [kind |-> "null", entries |-> <<>>]
MalformedJson == [kind |-> "malformed", entries |-> <<>>]
Json(es) == [kind |-> "json", entries |-> es]

\* payloads of a root attestation
RootPayloads ==
    {NullJson, MalformedJson, Json(<<>>),
     Json(<<Entry("coordinates", "5,5")>>),
     Json(<<Entry("locationUID", "")>>),
     Json(<<Entry("locationUID", "0xLOC")>>),
     Json(<<Entry("coordinates", "5,5"), Entry("locationUID", "0xCCC")>>)}

\* payloads of an observation (referencing) attestation
ObsPayloads == {MalformedJson, Json(<<Entry("coordinates", "5,5")>>)}

\* payloads of a location-boundary attestation
BoundaryPayloads == {NullJson, Json(<<Entry("coordinates", "0,0;0,10;10,10;10,0;0,0")>>)}

\* the names of the entries of a payload
EntryNames(es) == {es[i].name : i \in DOMAIN es}

\* the value of the last entry called n
LastValue(es, n) ==
    es[CHOOSE i \in DOMAIN es :
          /\ es[i].name = n
          /\ \A j \in DOMAIN es : es[j].name = n => j <= i].value

\* extractDecodedDataFromRaw (data-utils): the entries reduced into a
\* name-keyed mapping; a null or malformed string raises.
extractDecodedDataFromRaw(raw) ==
    IF raw.kind = "json"
    THEN [threw |-> FALSE,
          value |-> [n \in EntryNames(raw.entries) |-> LastValue(raw.entries, n)]]
    ELSE [threw |-> TRUE, value |-> [n \in {} |-> ""]]

\* decodedData.locationUID: undefined when the mapping has no such key
GetLocationUID(decodedData) ==
    IF "locationUID" \in DOMAIN decodedData THEN decodedData["locationUID"] ELSE Undefined

-----------------------------------------------------------------------------
(* The attestation store (the EAS indexer) and its responses *)

RawAttestation(i, s, r, d) ==
    [id |-> i, schemaId |-> s, refUID |-> r, decodedDataJson |-> d]

\* sequences over S of length at most n without repeated ids
RECURSIVE ListsUpTo(_, _)
ListsUpTo(S, n) ==
    IF n = 0 THEN {<<>>}
    ELSE LET shorter == ListsUpTo(S, n - 1)
         IN  shorter \cup
             {Append(l, a) : <<l, a>> \in
                 {p \in shorter \X S :
                     /\ Len(p[1]) = n - 1
                     /\ \A k \in DOMAIN p[1] : p[1][k].id # p[2].id}}

\* attestation(where: { id: $uid }): the record with that id, when the store has one.
RootRecords(uid) ==
    {RawAttestation(uid, "0xS1", ZeroUID, d) : d \in RootPayloads}

\* attestations(where: { refUID: {equals: $uid} }): the records referencing uid.
\* An EAS uid is a hash over the attestation's own refUID, so no attestation
\* references itself: the root is not among them.
RefRecords(uid) ==
    {RawAttestation(i, s, uid, d) : i \in Ids \ {uid}, s \in SchemaIds, d \in ObsPayloads}

HttpError == [ok |-> FALSE, status |-> 500, data |-> <<>>]
HttpNoData == [ok |-> TRUE, status |-> 200, data |-> <<>>]
HttpData(d) == [ok |-> TRUE, status |-> 200, data |-> <<d>>]

\* the responses the store can give to the combined query for uid
CombinedResponses(uid) ==
    {HttpError, HttpNoData} \cup
    {HttpData([attestation |-> a, attestations |-> l]) :
        a \in {<<>>} \cup {<<r>> : r \in RootRecords(uid)},
        l \in {<<>>} \cup {<<s>> : s \in ListsUpTo(RefRecords(uid), MaxRefs)}}

\* the record the combined response showed for uid, if any (attestations are immutable)
SeenRecords(resp, uid) ==
    LET d == resp[1].data[1]
        refs == IF d.attestations = <<>> THEN <<>> ELSE d.attestations[1]
    IN  {r \in {refs[i] : i \in DOMAIN refs} \cup
               (IF d.attestation = <<>> THEN {} ELSE {d.attestation[1]}) : r.id = uid}

\* the responses the store can give to the location query for uid
\* (resp: the response the combined query received, <<>> when there is none yet)
LocationResponses(resp, uid) ==
    IF resp = <<>> THEN {}
    ELSE
    LET seen == SeenRecords(resp, uid)
        recs == IF seen # {} THEN seen
                ELSE {RawAttestation(uid, "0xS2", ZeroUID, d) : d \in BoundaryPayloads}
    IN  {HttpError, HttpNoData} \cup
        {HttpData([attestation |-> a, attestations |-> <<>>]) :
            a \in (IF seen # {} THEN {} ELSE {<<>>}) \cup {<<r>> : r \in recs}}

-----------------------------------------------------------------------------
(* The code of eas-client.ts.  A function that can throw returns a record  *)
(* whose field threw is the error (NoError when it returns normally).      *)

\* a slip in the first draft's normalization: the store-level backlink dropped
convertRawAttestationToData_NoRefUID(rawAttestation) ==
    [uid |-> rawAttestation.id,
     schemaId |-> rawAttestation.schemaId,
     refUID |-> Undefined,
     data |-> rawAttestation.decodedDataJson]

\* first draft, lines 9-16
convertRawAttestationToData(rawAttestation) ==
    [uid |-> rawAttestation.id,
     schemaId |-> rawAttestation.schemaId,
     refUID |-> rawAttestation.refUID,
     data |-> rawAttestation.decodedDataJson]

\* a slip in the normalization: uid taken from refUID
convertGraphQLResponseToAttestationData_UidFromRef(rawAttestation) ==
    [uid |-> rawAttestation.refUID,
     schemaId |-> rawAttestation.schemaId,
     refUID |-> rawAttestation.refUID,
     data |-> rawAttestation.decodedDataJson]

\* second draft, lines 226-233
convertGraphQLResponseToAttestationData(rawAttestation) ==
    [uid |-> rawAttestation.id,
     schemaId |-> rawAttestation.schemaId,
     refUID |-> rawAttestation.refUID,
     data |-> rawAttestation.decodedDataJson]

\* a slip in the lookup: the default case falls back to mainnet
getEndpoint_DefaultMainnet(c) ==
    CASE c = 1 -> "https://mainnet.easscan.org/graphql"
      [] c = 10 -> "https://optimism.easscan.org/graphql"
      [] c = 11155111 -> "https://sepolia.easscan.org/graphql"
      [] OTHER -> "https://mainnet.easscan.org/graphql"

\* the same in both drafts
getEndpoint(c) ==
    CASE c = 1 -> "https://mainnet.easscan.org/graphql"
      [] c = 10 -> "https://optimism.easscan.org/graphql"
      [] c = 11155111 -> "https://sepolia.easscan.org/graphql"
      [] OTHER -> Null

\* the body fetch() posts: { query, variables: { uid } }
Request(ep, queryName, uid) ==
    [endpoint |-> ep, query |-> queryName, variables |-> [uid |-> uid]]

\* fetchInitialAttestations up to its await: the combined query
InitialRequest(ep, id) == Request(ep, "GetAttestation", id)

\* a slip in fetchLocationAttestation: the combined query's text pasted in
LocationRequest_Combined(ep, uid) == Request(ep, "GetAttestation", uid)

\* fetchLocationAttestation up to its await: the single lookup query
LocationRequest(ep, uid) == Request(ep, "GetLocationAttestation", uid)

\* executeGraphQLQuery from the response on; the same in both drafts
executeGraphQLQuery(response, throwOnError) ==
    IF ~response.ok
    THEN IF throwOnError
         THEN [threw |-> GraphQLError, data |-> <<>>]
         ELSE [threw |-> NoError, data |-> <<>>]
    ELSE IF response.data = <<>> /\ throwOnError
         THEN [threw |-> NoDataReturned, data |-> <<>>]
         ELSE [threw |-> NoError, data |-> response.data]

\* a slip in fetchInitialAttestations: errors turned into an empty result
fetchInitialAttestations_EmptyOnError(response) ==
    LET r == executeGraphQLQuery(response, FALSE)
    IN  IF r.data = <<>>
        THEN [threw |-> NoError, data |-> <<[attestation |-> <<>>, attestations |-> <<>>]>>]
        ELSE r

\* fetchInitialAttestations from the response on: throwOnError is true
fetchInitialAttestations(response) == executeGraphQLQuery(response, TRUE)

\* a slip in the lenient query: throwOnError left at its default, true
fetchLocationAttestation_Throwing(response) ==
    LET r == executeGraphQLQuery(response, TRUE)
    IN  [threw |-> r.threw,
         value |-> IF r.data = <<>> THEN <<>> ELSE r.data[1].attestation]

\* a slip in the lenient query: data || null returned instead of
\* data?.attestation || null, so a response without a record is still an object
fetchLocationAttestation_WholeData(response) ==
    LET r == executeGraphQLQuery(response, FALSE)
    IN  [threw |-> r.threw,
         value |-> IF r.data = <<>> THEN <<>>
                   ELSE IF r.data[1].attestation = <<>>
                   THEN <<RawAttestation(Undefined, Undefined, Undefined, NullJson)>>
                   ELSE r.data[1].attestation]

\* fetchLocationAttestation from the response on: throwOnError is false,
\* and the result is data?.attestation || null
fetchLocationAttestation(response) ==
    LET r == executeGraphQLQuery(response, FALSE)
    IN  [threw |-> r.threw,
         value |-> IF r.data = <<>> THEN <<>> ELSE r.data[1].attestation]

\* initialData.attestations || []
ReferencingOf(initialData) ==
    IF initialData.attestations = <<>> THEN <<>> ELSE initialData.attestations[1]

\* a slip in the first draft: the original attestation pushed into the results
fetchMainAttestations1_WithRoot(initialData) ==
    LET decoded == extractDecodedDataFromRaw(initialData.attestation[1].decodedDataJson)
        uid == IF initialData.attestation # <<>> /\ ~decoded.threw
               THEN GetLocationUID(decoded.value)
               ELSE Null
        allAttestations == initialData.attestation \o ReferencingOf(initialData)
    IN  IF Len(allAttestations) = 0
        THEN [threw |-> NoReferencingAttestations, attestations |-> <<>>, locationUID |-> Null]
        ELSE [threw |-> NoError,
              attestations |-> [i \in DOMAIN allAttestations |->
                                   [uid |-> allAttestations[i].id,
                                    schemaId |-> allAttestations[i].schemaId,
                                    refUID |-> allAttestations[i].refUID,
                                    data |-> allAttestations[i].decodedDataJson]],
              locationUID |-> uid]

\* first draft, lines 80-115: the code after the await of fetchInitialAttestations
fetchMainAttestations1(initialData) ==
    LET decoded == extractDecodedDataFromRaw(initialData.attestation[1].decodedDataJson)
        uid == IF initialData.attestation # <<>> /\ ~decoded.threw
               THEN GetLocationUID(decoded.value)
               ELSE Null
        allAttestations ==
            IF initialData.attestations # <<>> /\ Len(initialData.attestations[1]) > 0
            THEN initialData.attestations[1]
            ELSE <<>>
    IN  IF Len(allAttestations) = 0
        THEN [threw |-> NoReferencingAttestations, attestations |-> <<>>, locationUID |-> Null]
        ELSE [threw |-> NoError,
              attestations |-> [i \in DOMAIN allAttestations |->
                                   convertRawAttestationToData(allAttestations[i])],
              locationUID |-> uid]

\* second draft, lines 316-337
extractLocationUID(initialData) ==
    IF initialData.attestation = <<>>
    THEN [threw |-> RootAttestationNotFound, value |-> Null]
    ELSE LET json == initialData.attestation[1].decodedDataJson
             decoded == extractDecodedDataFromRaw(json)
         IN  IF json.kind # "null" /\ ~decoded.threw
             THEN [threw |-> NoError,
                   value |-> IF Falsy(GetLocationUID(decoded.value))
                             THEN Null
                             ELSE GetLocationUID(decoded.value)]
             ELSE [threw |-> LocationReferenceMissing, value |-> Null]

\* a slip in the second draft: the empty referencing list is not rejected
fetchMainAttestations2_NoEmptyCheck(initialData) ==
    LET extracted == extractLocationUID(initialData)
        referencingAttestations == ReferencingOf(initialData)
    IN  IF extracted.threw # NoError
        THEN [threw |-> extracted.threw, attestations |-> <<>>, locationUID |-> Null]
        ELSE [threw |-> NoError,
              attestations |-> [i \in DOMAIN referencingAttestations |->
                  convertGraphQLResponseToAttestationData(referencingAttestations[i])],
              locationUID |-> extracted.value]

\* second draft, lines 295-314: the code after the await of fetchInitialAttestations
fetchMainAttestations2(initialData) ==
    LET extracted == extractLocationUID(initialData)
        referencingAttestations == ReferencingOf(initialData)
    IN  IF extracted.threw # NoError
        THEN [threw |-> extracted.threw, attestations |-> <<>>, locationUID |-> Null]
        ELSE IF Len(referencingAttestations) > 0
        THEN [threw |-> NoError,
              attestations |-> [i \in DOMAIN referencingAttestations |->
                  convertGraphQLResponseToAttestationData(referencingAttestations[i])],
              locationUID |-> extracted.value]
        ELSE [threw |-> NoReferencingAttestations, attestations |-> <<>>, locationUID |-> Null]

fetchMainAttestations(v, initialData) ==
    IF v = 1 THEN fetchMainAttestations1(initialData) ELSE fetchMainAttestations2(initialData)

\* a slip in fetchLocationData: the guard on locationUID dropped
SkipsLocationQuery_Never(uid) == FALSE

\* fetchLocationData up to its await: a falsy locationUID returns null at once
SkipsLocationQuery(uid) == Falsy(uid)

\* fetchLocationData after its await, first draft (lines 128-135)
fetchLocationData1(response) ==
    LET found == fetchLocationAttestation(response)
    IN  [threw |-> found.threw,
         value |-> IF found.threw = NoError /\ found.value # <<>>
                   THEN <<convertRawAttestationToData(found.value[1])>>
                   ELSE <<>>]

\* fetchLocationData after its await, second draft (lines 350-357)
fetchLocationData2(response) ==
    LET found == fetchLocationAttestation(response)
    IN  [threw |-> found.threw,
         value |-> IF found.threw = NoError /\ found.value # <<>>
                   THEN <<convertGraphQLResponseToAttestationData(found.value[1])>>
                   ELSE <<>>]

fetchLocationData(v, response) ==
    IF v = 1 THEN fetchLocationData1(response) ELSE fetchLocationData2(response)

-----------------------------------------------------------------------------
(* The run *)

\* fetchAttestations has not been called
ResolveIdle ==
    /\ pc = "Idle"
    /\ variant = 0
    /\ chainId = 0
    /\ attestationId = ""
    /\ endpoint = Null
    /\ requests = <<>>
    /\ initialResp = <<>>
    /\ locationResp = <<>>
    /\ locationUID = Null
    /\ attestations = <<>>
    /\ locationAttestation = <<>>
    /\ error = NoError

\* neither of the two concurrent calls has been made
ConcRunsIdle ==
    /\ crun = [p \in {1, 2} |->
                 [pc |-> "Idle", chainId |-> 0, attestationId |-> "", pending |-> <<>>,
                  t1 |-> "none", t2 |-> "none", error |-> NoError,
                  result |-> [attestations |-> <<>>, locationAttestation |-> <<>>]]]
    /\ clocals = [f \in {1, 2} |->
                    [endpoint |-> Null, attestations |-> <<>>, locationUID |-> Null,
                     locationAttestation |-> <<>>]]

\* the concurrent calls: an empty store and no call made
ConcIdle ==
    /\ cstore = <<>>
    /\ cvariant = 0
    /\ ConcRunsIdle

Init ==
    /\ ResolveIdle
    /\ EvalIdle
    /\ ConcIdle

\* a slip in the error path: the combined query is awaited again after an error
Throw_Retry(e) ==
    /\ pc' = "AwaitInitial"
    /\ error' = e

\* the promise of fetchAttestations is rejected with e
Throw(e) ==
    /\ pc' = "Failed"
    /\ error' = e

\* fetchAttestations(chainId, attestationId) up to its first await
FetchAttestations(v, c, id) ==
    /\ pc = "Idle"
    /\ variant' = v
    /\ chainId' = c
    /\ attestationId' = id
    /\ endpoint' = getEndpoint(c)
    /\ IF getEndpoint(c) = Null
       THEN /\ Throw(UnsupportedChain)
            /\ UNCHANGED requests
       ELSE /\ requests' = Append(requests, InitialRequest(getEndpoint(c), id))
            /\ pc' = "AwaitInitial"
            /\ UNCHANGED error
    /\ UNCHANGED <<initialResp, locationResp, locationUID, attestations, locationAttestation>>
    /\ UNCHANGED <<evalVars, concVars>>

\* the combined query's response arrives: the rest of fetchMainAttestations,
\* then fetchLocationData up to its await
InitialResponse(resp) ==
    /\ pc = "AwaitInitial"
    /\ initialResp' = <<resp>>
    /\ LET got == fetchInitialAttestations(resp)
           main == fetchMainAttestations(variant, got.data[1])
       IN  IF got.threw # NoError
           THEN /\ Throw(got.threw)
                /\ UNCHANGED <<requests, locationUID, attestations, locationAttestation>>
           ELSE IF main.threw # NoError
           THEN /\ Throw(main.threw)
                /\ UNCHANGED <<requests, locationUID, attestations, locationAttestation>>
           ELSE /\ attestations' = main.attestations
                /\ locationUID' = main.locationUID
                /\ IF SkipsLocationQuery(main.locationUID)
                   THEN /\ locationAttestation' = <<>>
                        /\ pc' = "Done"
                        /\ UNCHANGED requests
                   ELSE /\ requests' = Append(requests, LocationRequest(endpoint, main.locationUID))
                        /\ pc' = "AwaitLocation"
                        /\ UNCHANGED locationAttestation
                /\ UNCHANGED error
    /\ UNCHANGED <<variant, chainId, attestationId, endpoint, locationResp>>
    /\ UNCHANGED <<evalVars, concVars>>

\* fetch() of the combined query rejects (the store is unreachable)
InitialFetchRejected ==
    /\ pc = "AwaitInitial"
    /\ Throw(StoreUnreachable)
    /\ UNCHANGED <<variant, chainId, attestationId, endpoint, requests, initialResp,
                   locationResp, locationUID, attestations, locationAttestation>>
    /\ UNCHANGED <<evalVars, concVars>>

\* the location query's response arrives: the rest of fetchLocationData,
\* then the return of fetchAttestations
LocationResponse(resp) ==
    /\ pc = "AwaitLocation"
    /\ locationResp' = <<resp>>
    /\ LET loc == fetchLocationData(variant, resp)
       IN  IF loc.threw # NoError
           THEN /\ Throw(loc.threw)
                /\ UNCHANGED locationAttestation
           ELSE /\ locationAttestation' = loc.value
                /\ pc' = "Done"
                /\ UNCHANGED error
    /\ UNCHANGED <<variant, chainId, attestationId, endpoint, requests, initialResp,
                   locationUID, attestations>>
    /\ UNCHANGED <<evalVars, concVars>>

\* fetch() of the location query rejects: nothing catches it
LocationFetchRejected ==
    /\ pc = "AwaitLocation"
    /\ Throw(StoreUnreachable)
    /\ UNCHANGED <<variant, chainId, attestationId, endpoint, requests, initialResp,
                   locationResp, locationUID, attestations, locationAttestation>>
    /\ UNCHANGED <<evalVars, concVars>>

Next ==
    \/ \E v \in {1, 2}, c \in ChainIds, id \in RootIds : FetchAttestations(v, c, id)
    \/ /\ pc = "AwaitInitial"
       /\ \E resp \in CombinedResponses(attestationId) : InitialResponse(resp)
    \/ InitialFetchRejected
    \/ /\ pc = "AwaitLocation"
       /\ \E resp \in LocationResponses(initialResp, locationUID) : LocationResponse(resp)
    \/ LocationFetchRejected

\* Every request gets a response or a transport error, and the event loop runs
\* the continuation of a settled promise: no step that is possible is put off forever.
\* The run is the same for every supported chain and every root id, so the
\* calls are drawn from one supported chain, one unsupported chain and one root id.
NextFair ==
    \/ \E v \in {1, 2}, c \in {1, 137} : FetchAttestations(v, c, "0xAAA")
    \/ /\ pc = "AwaitInitial"
       /\ \E resp \in CombinedResponses(attestationId) : InitialResponse(resp)
    \/ InitialFetchRejected
    \/ /\ pc = "AwaitLocation"
       /\ \E resp \in LocationResponses(initialResp, locationUID) : LocationResponse(resp)
    \/ LocationFetchRejected

SpecFair == Init /\ [][NextFair]_allVars /\ WF_allVars(NextFair)

Spec == Init /\ [][Next]_allVars

-----------------------------------------------------------------------------
(* testPolygonContainment (src/unnamed/part_000) and what it calls.        *)
(* Coordinates are carried as the JSON text of the payload's value;        *)
(* PositionOf and RingsOf give the numbers a text denotes.                 *)

\* the longest list of observations passed to testPolygonContainment
MaxObs == 2

Square10 == "0,0;0,10;10,10;10,0;0,0"
Square100 == "0,0;0,100;100,100;100,0;0,0"
OpenRing == "0,0;0,10;10,10"

\* the position a coordinates text denotes, <<>> when it is not a pair of numbers
PositionOf(text) ==
    CASE text = "5,5" -> <<5, 5>>
      [] text = "50,50" -> <<50, 50>>
      [] text = "-3,4" -> <<-3, 4>>
      [] OTHER -> <<>>

\* the linear rings a coordinates text denotes, <<>> when it is not a list of rings
RingsOf(text) ==
    CASE text = Square10 -> << << <<0, 0>>, <<0, 10>>, <<10, 10>>, <<10, 0>>, <<0, 0>> >> >>
      [] text = Square100 -> << << <<0, 0>>, <<0, 100>>, <<100, 100>>, <<100, 0>>, <<0, 0>> >> >>
      [] text = OpenRing -> << << <<0, 0>>, <<0, 10>>, <<10, 10>> >> >>
      [] OTHER -> <<>>

\* a call to a collaborator, as the trace records it
Call(fn, arg) == [fn |-> fn, arg |-> arg]

EvalError(kind, at) == [kind |-> kind, at |-> at]

\* extractLocationFromAttestation (data-utils): the payload decoded and its
\* geometry taken out; raises when the payload does not decode or has no geometry
extractLocationFromAttestation(attestation) ==
    LET decoded == extractDecodedDataFromRaw(attestation.data)
    IN  IF decoded.threw \/ "coordinates" \notin DOMAIN decoded.value
        THEN [threw |-> TRUE, value |-> [coordinates |-> Undefined]]
        ELSE [threw |-> FALSE, value |-> [coordinates |-> decoded.value["coordinates"]]]

\* polygon() of @turf/helpers: every ring has four or more positions and is closed
polygon(coordinates) ==
    LET rings == RingsOf(coordinates)
    IN  IF /\ rings # <<>>
           /\ \A r \in DOMAIN rings :
                 /\ Len(rings[r]) >= 4
                 /\ rings[r][1] = rings[r][Len(rings[r])]
        THEN [threw |-> FALSE, value |-> <<[type |-> "Polygon", coordinates |-> rings]>>]
        ELSE [threw |-> TRUE, value |-> <<>>]

\* point() of @turf/helpers: the coordinates are two numbers or more
point(coordinates) ==
    LET position == PositionOf(coordinates)
    IN  IF Len(position) >= 2
        THEN [threw |-> FALSE, value |-> <<[type |-> "Point", coordinates |-> position]>>]
        ELSE [threw |-> TRUE, value |-> <<>>]

\* the horizontal ray from pt to the right crosses the edge from a to b
Crosses(pt, a, b) ==
    /\ (a[2] > pt[2]) # (b[2] > pt[2])
    /\ LET dy == b[2] - a[2]
           lhs == (pt[1] - a[1]) * dy
           rhs == (b[1] - a[1]) * (pt[2] - a[2])
       IN  IF dy > 0 THEN lhs < rhs ELSE lhs > rhs

\* planar point-in-polygon by crossing number
PointInRing(pt, ring) ==
    Cardinality({i \in 1..(Len(ring) - 1) : Crosses(pt, ring[i], ring[i + 1])}) % 2 = 1

\* booleanContains(polygon, point) of @turf/boolean-contains, for a point off
\* the polygon's edges: inside the outer ring and in none of the holes
booleanContains(poly, pt) ==
    /\ PointInRing(pt.coordinates, poly.coordinates[1])
    /\ \A h \in 2..Len(poly.coordinates) : ~PointInRing(pt.coordinates, poly.coordinates[h])

\* a slip in validateObservation: a failing observation reported as not contained
validateObservation_SkipOnError(index, attestation, poly) ==
    LET locationData == extractLocationFromAttestation(attestation)
        turfPoint == point(locationData.value.coordinates)
        c1 == <<Call("extractLocationFromAttestation", attestation.uid)>>
        c2 == c1 \o <<Call("point", locationData.value.coordinates)>>
        c3 == c2 \o <<Call("booleanContains", locationData.value.coordinates)>>
    IN  IF locationData.threw \/ turfPoint.threw
        THEN [threw |-> NoEvalError, calls |-> c1,
              value |-> [attestationId |-> attestation.uid,
                         location |-> locationData.value,
                         isContainedInPolygon |-> FALSE]]
        ELSE [threw |-> NoEvalError, calls |-> c3,
              value |-> [attestationId |-> attestation.uid,
                         location |-> locationData.value,
                         isContainedInPolygon |-> booleanContains(poly, turfPoint.value[1])]]

\* a slip in validateObservation: the polygon built again for every observation
validateObservation_RebuildsPolygon(index, attestation, poly) ==
    LET locationData == extractLocationFromAttestation(attestation)
        turfPoint == point(locationData.value.coordinates)
        c0 == <<Call("polygon", "")>>
        c1 == c0 \o <<Call("extractLocationFromAttestation", attestation.uid)>>
        c2 == c1 \o <<Call("point", locationData.value.coordinates)>>
        c3 == c2 \o <<Call("booleanContains", locationData.value.coordinates)>>
        none == [attestationId |-> attestation.uid, location |-> locationData.value,
                 isContainedInPolygon |-> FALSE]
    IN  IF locationData.threw
        THEN [threw |-> EvalError("PayloadDecodeError", index), calls |-> c1, value |-> none]
        ELSE IF turfPoint.threw
        THEN [threw |-> EvalError("InvalidGeometry", index), calls |-> c2, value |-> none]
        ELSE [threw |-> NoEvalError, calls |-> c3,
              value |-> [attestationId |-> attestation.uid,
                         location |-> locationData.value,
                         isContainedInPolygon |-> booleanContains(poly, turfPoint.value[1])]]

\* validateObservation, lines 33-51; index counts from 1 here (the source logs index + 1)
validateObservation(index, attestation, poly) ==
    LET locationData == extractLocationFromAttestation(attestation)
        turfPoint == point(locationData.value.coordinates)
        c1 == <<Call("extractLocationFromAttestation", attestation.uid)>>
        c2 == c1 \o <<Call("point", locationData.value.coordinates)>>
        c3 == c2 \o <<Call("booleanContains", locationData.value.coordinates)>>
        none == [attestationId |-> attestation.uid, location |-> locationData.value,
                 isContainedInPolygon |-> FALSE]
    IN  IF locationData.threw
        THEN [threw |-> EvalError("PayloadDecodeError", index), calls |-> c1, value |-> none]
        ELSE IF turfPoint.threw
        THEN [threw |-> EvalError("InvalidGeometry", index), calls |-> c2, value |-> none]
        ELSE [threw |-> NoEvalError, calls |-> c3,
              value |-> [attestationId |-> attestation.uid,
                         location |-> locationData.value,
                         isContainedInPolygon |-> booleanContains(poly, turfPoint.value[1])]]

\* a slip in the mapping: filter in place of map, only contained observations kept
MapCollect_OnlyContained(results, r) ==
    IF r.isContainedInPolygon THEN Append(results, r) ELSE results

\* a slip in the mapping: results collected newest first
MapCollect_Prepend(results, r) == <<r>> \o results

\* Array.prototype.map: the callback's result is stored at the element's index
MapCollect(results, r) == Append(results, r)

\* the observations passed to testPolygonContainment
EvalObservations ==
    {[uid |-> u, schemaId |-> "0xS1", refUID |-> "0xAAA", data |-> d] :
        u \in {"0xBBB", "0xCCC", "0xDDD"},
        d \in {MalformedJson,
               Json(<<Entry("coordinates", "5,5")>>),
               Json(<<Entry("coordinates", "50,50")>>),
               Json(<<Entry("coordinates", "-3,4")>>),
               Json(<<Entry("coordinates", "north")>>)}}

\* the boundary attestations passed to testPolygonContainment
EvalBoundaries ==
    {[uid |-> "0xLOC", schemaId |-> "0xS2", refUID |-> ZeroUID, data |-> d] :
        d \in {MalformedJson,
               Json(<<Entry("coordinates", Square10)>>),
               Json(<<Entry("coordinates", Square100)>>),
               Json(<<Entry("coordinates", OpenRing)>>)}}

\* lists over S of length at most n without repeated uids
RECURSIVE ObservationLists(_, _)
ObservationLists(S, n) ==
    IF n = 0 THEN {<<>>}
    ELSE LET shorter == ObservationLists(S, n - 1)
         IN  shorter \cup
             {Append(p[1], p[2]) : p \in
                 {q \in shorter \X S :
                     /\ Len(q[1]) = n - 1
                     /\ \A k \in DOMAIN q[1] : q[1][k].uid # q[2].uid}}

\* the promise-free function throws e
EvalThrow(e) ==
    /\ epc' = "Failed"
    /\ eError' = e

\* testPolygonContainment(attestations, locationAttestation), lines 13-22:
\* the boundary decoded and the polygon built
TestPolygonContainment(atts, loc) ==
    /\ epc = "Idle"
    /\ eAttestations' = atts
    /\ eLocationAttestation' = <<loc>>
    /\ LET extracted == extractLocationFromAttestation(loc)
           built == polygon(extracted.value.coordinates)
           c1 == <<Call("extractLocationFromAttestation", loc.uid)>>
           c2 == c1 \o <<Call("polygon", extracted.value.coordinates)>>
       IN  IF extracted.threw
           THEN /\ EvalThrow(EvalError("PayloadDecodeError", 0))
                /\ calls' = calls \o c1
                /\ UNCHANGED <<polygonData, turfPolygon>>
           ELSE IF built.threw
           THEN /\ EvalThrow(EvalError("InvalidGeometry", 0))
                /\ calls' = calls \o c2
                /\ polygonData' = <<extracted.value>>
                /\ UNCHANGED turfPolygon
           ELSE /\ epc' = "Mapping"
                /\ calls' = calls \o c2
                /\ polygonData' = <<extracted.value>>
                /\ turfPolygon' = built.value
                /\ UNCHANGED eError
    /\ UNCHANGED <<eIndex, containmentResults, eReturned>>
    /\ UNCHANGED <<vars, concVars>>

\* one turn of attestations.map, lines 24-26: validateObservation on the next element
ValidateNext ==
    /\ epc = "Mapping"
    /\ eIndex < Len(eAttestations)
    /\ LET r == validateObservation(eIndex + 1, eAttestations[eIndex + 1], turfPolygon[1])
       IN  /\ calls' = calls \o r.calls
           /\ eIndex' = eIndex + 1
           /\ IF r.threw # NoEvalError
              THEN /\ EvalThrow(r.threw)
                   /\ UNCHANGED containmentResults
              ELSE /\ containmentResults' = MapCollect(containmentResults, r.value)
                   /\ UNCHANGED <<epc, eError>>
    /\ UNCHANGED <<eAttestations, eLocationAttestation, polygonData, turfPolygon, eReturned>>
    /\ UNCHANGED <<vars, concVars>>

\* the map is over: return containmentResults, lines 28-30
ReturnResults ==
    /\ epc = "Mapping"
    /\ eIndex = Len(eAttestations)
    /\ epc' = "Done"
    /\ eReturned' = <<containmentResults>>
    /\ UNCHANGED <<eAttestations, eLocationAttestation, polygonData, turfPolygon, eIndex,
                   containmentResults, eError, calls>>
    /\ UNCHANGED <<vars, concVars>>

EvalNext ==
    \/ \E atts \in ObservationLists(EvalObservations, MaxObs), loc \in EvalBoundaries :
          TestPolygonContainment(atts, loc)
    \/ ValidateNext
    \/ ReturnResults

SpecEval == Init /\ [][EvalNext]_allVars

-----------------------------------------------------------------------------
(* What a run has seen of the store, read off the recorded responses *)

\* the combined query got a 2xx response carrying data
GotInitialData ==
    /\ initialResp # <<>>
    /\ initialResp[1].ok
    /\ initialResp[1].data # <<>>

\* part (a) of the combined response holds the root attestation
RootPresent == GotInitialData /\ initialResp[1].data[1].attestation # <<>>

RootAbsent == GotInitialData /\ initialResp[1].data[1].attestation = <<>>

\* the payload of the root attestation
RootJson == initialResp[1].data[1].attestation[1].decodedDataJson

\* the root's payload is a well-formed array of entries
RootDecodes == RootPresent /\ RootJson.kind = "json"

\* the values the root's payload gives for locationUID
RootLocationUIDs ==
    {RootJson.entries[i].value :
        i \in {j \in DOMAIN RootJson.entries : RootJson.entries[j].name = "locationUID"}}

\* part (b) of the combined response: the attestations referencing the root
ReturnedRefs ==
    IF initialResp[1].data[1].attestations = <<>>
    THEN <<>>
    ELSE initialResp[1].data[1].attestations[1]

\* the location query got a 2xx response carrying an attestation record
LocationRecordReturned ==
    /\ locationResp # <<>>
    /\ locationResp[1].ok
    /\ locationResp[1].data # <<>>
    /\ locationResp[1].data[1].attestation # <<>>

LocationRecord == locationResp[1].data[1].attestation[1]

\* a raw record as an Attestation: uid = id, schemaId, refUID, data = decodedDataJson
Normalized(raw) ==
    [uid |-> raw.id, schemaId |-> raw.schemaId, refUID |-> raw.refUID,
     data |-> raw.decodedDataJson]

-----------------------------------------------------------------------------
(* The claims *)

\* C1 as stated: whenever the combined response carries an empty referencing
\* list, the run has failed with NoReferencingAttestations, in either draft,
\* whether or not the root is present and whatever its payload.
C1_Original ==
    (GotInitialData /\ Len(ReturnedRefs) = 0)
        => (pc = "Failed" /\ error = NoReferencingAttestations)

\* C1 amended: whenever the combined response carries an empty referencing
\* list, the run has failed.  The first draft fails with
\* NoReferencingAttestations in every such case.  The second draft looks at the
\* root first: it fails with RootAttestationNotFound when the root is absent,
\* with LocationReferenceMissing when the root's payload is missing or does not
\* decode, and with NoReferencingAttestations otherwise.
C1_EmptyReferencingFails ==
    (GotInitialData /\ Len(ReturnedRefs) = 0)
        => /\ pc = "Failed"
           /\ error = IF variant = 1 THEN NoReferencingAttestations
                      ELSE IF RootAbsent THEN RootAttestationNotFound
                      ELSE IF ~RootDecodes THEN LocationReferenceMissing
                      ELSE NoReferencingAttestations

\* C1's case: the second draft, root present and decodable, nobody references it
C1_Witness ==
    /\ variant = 2
    /\ RootDecodes
    /\ Len(ReturnedRefs) = 0
    /\ error = NoReferencingAttestations

\* C2 as stated, in the case it stresses: whenever the root is present, its
\* payload decodes but has no locationUID (or an empty one), and one or more
\* attestations reference the root, the run has failed with
\* LocationReferenceMissing; it has not returned.  (With an empty referencing
\* list C1 names another error; that case is left to C1.)
C2_Claim ==
    (RootDecodes /\ RootLocationUIDs \subseteq {""} /\ Len(ReturnedRefs) >= 1)
        => (pc = "Failed" /\ error = LocationReferenceMissing)

\* C3 as stated: no successful return has a null locationAttestation.
C3_Original == pc = "Done" => locationAttestation # <<>>

\* C3 amended: a successful return carries at most one boundary attestation.
\* locationAttestation is non-null exactly when a non-empty locationUID was
\* extracted and the location query returned a record, and it is then the record
\* whose uid is the locationUID of the root's payload; otherwise the call
\* returns successfully with locationAttestation = null.
C3_AtMostOneBoundary ==
    pc = "Done"
        => /\ Len(locationAttestation) <= 1
           /\ locationAttestation # <<>> <=> (~Falsy(locationUID) /\ LocationRecordReturned)
           /\ locationAttestation # <<>>
                 => /\ locationAttestation[1].uid = locationUID
                    /\ locationUID \in RootLocationUIDs
                    /\ Len(requests) = 2

\* C3's case: a locationUID was extracted, no boundary was resolved, and the call returned
C3_Witness ==
    /\ pc = "Done"
    /\ ~Falsy(locationUID)
    /\ locationAttestation = <<>>

\* C4 as stated, in the case it stresses: whenever the combined response has no
\* root attestation and a non-empty referencing list, the run has failed with
\* RootAttestationNotFound.  (With an empty referencing list C1 names another
\* error; that case is left to C1.)
C4_Claim ==
    (RootAbsent /\ Len(ReturnedRefs) >= 1)
        => (pc = "Failed" /\ error = RootAttestationNotFound)

\* C5 as stated, in the case it stresses: whenever the root is present, its
\* payload is missing or does not decode, and one or more attestations
\* reference the root, the run has failed with LocationReferenceMissing: the
\* decode error was not swallowed.  (With an empty referencing list C1 names
\* another error; that case is left to C1.)
C5_Claim ==
    (RootPresent /\ ~RootDecodes /\ Len(ReturnedRefs) >= 1)
        => (pc = "Failed" /\ error = LocationReferenceMissing)

\* C6: a call with a chainId other than 1, 10 and 11155111 has failed with
\* UnsupportedChain without issuing any request; a call with one of the three
\* has a non-null endpoint and has issued the combined query for its root id
\* to that endpoint as its first request.
C6_UnsupportedChain ==
    pc # "Idle"
        => IF chainId \notin {1, 10, 11155111}
           THEN /\ pc = "Failed"
                /\ error = UnsupportedChain
                /\ requests = <<>>
           ELSE /\ endpoint # Null
                /\ error # UnsupportedChain
                /\ Len(requests) >= 1
                /\ requests[1] = [endpoint |-> endpoint,
                                  query |-> "GetAttestation",
                                  variables |-> [uid |-> attestationId]]

\* C6's case: a call with chain 137 has ended
C6_Witness ==
    /\ chainId = 137
    /\ pc = "Failed"
    /\ error = UnsupportedChain

\* C7: when both queries got data, the root's payload names locationUID L, n >= 1
\* attestations reference the root and the store returned the record of L, the
\* call has returned the n referencing attestations normalized, in the store's
\* order, and the normalized record of L as the boundary.
C7_SuccessPath ==
    (/\ RootDecodes
     /\ \E L \in Ids : RootLocationUIDs = {L}
     /\ Len(ReturnedRefs) >= 1
     /\ LocationRecordReturned)
        => /\ pc = "Done"
           /\ error = NoError
           /\ attestations = [i \in 1..Len(ReturnedRefs) |-> Normalized(ReturnedRefs[i])]
           /\ locationAttestation = <<Normalized(LocationRecord)>>
           /\ locationAttestation[1].uid \in RootLocationUIDs

\* C7's case: root 0xAAA, referenced by 0xCCC and 0xBBB in that order, boundary 0xLOC
C7_Witness ==
    /\ pc = "Done"
    /\ attestationId = "0xAAA"
    /\ Len(attestations) = 2
    /\ attestations[1].uid = "0xCCC"
    /\ attestations[2].uid = "0xBBB"
    /\ locationAttestation # <<>>
    /\ locationAttestation[1].uid = "0xLOC"

\* C8: in every successful return the observation list is part (b) of the
\* combined response, entry by entry, and the root is not an element of it.
C8_RootExcluded ==
    pc = "Done"
        => /\ Len(attestations) = Len(ReturnedRefs)
           /\ \A i \in DOMAIN attestations :
                 /\ attestations[i] = Normalized(ReturnedRefs[i])
                 /\ attestations[i].uid # attestationId
           /\ RootPresent =>
                 \A i \in DOMAIN attestations :
                     attestations[i] # Normalized(initialResp[1].data[1].attestation[1])

\* C8's case: the first draft returned, having fetched the root
C8_Witness ==
    /\ pc = "Done"
    /\ variant = 1
    /\ RootPresent
    /\ Len(attestations) = MaxRefs

\* C9: a location response that is non-2xx, carries no data or carries no
\* record ends the call successfully with a null boundary and no error; a
\* combined response that is non-2xx or carries no data ends the call with an error.
C9_LenientLocationQuery ==
    /\ (/\ locationResp # <<>>
        /\ ~LocationRecordReturned)
          => (pc = "Done" /\ error = NoError /\ locationAttestation = <<>>)
    /\ (/\ initialResp # <<>>
        /\ ~GotInitialData)
          => /\ pc = "Failed"
             /\ error = IF initialResp[1].ok THEN NoDataReturned ELSE GraphQLError

\* C9's case: the location query got a non-2xx response
C9_Witness ==
    /\ locationResp # <<>>
    /\ ~locationResp[1].ok
    /\ pc = "Done"

\* C10: when a locationUID was extracted and the run ended without the store
\* returning a record for it, the call either failed with an error or returned
\* a null boundary together with the observations of the combined response; it
\* did not return a non-null boundary.
C10_MissingBoundary ==
    (/\ pc \in {"Done", "Failed"}
     /\ Len(requests) = 2
     /\ ~LocationRecordReturned)
        => \/ pc = "Failed" /\ error # NoError
           \/ /\ pc = "Done"
              /\ error = NoError
              /\ locationAttestation = <<>>
              /\ attestations = [i \in 1..Len(ReturnedRefs) |-> Normalized(ReturnedRefs[i])]

\* C10's case: the store answered the location query with data holding no record
C10_Witness ==
    /\ pc = "Done"
    /\ ~Falsy(locationUID)
    /\ locationResp # <<>>
    /\ locationResp[1].ok
    /\ locationResp[1].data # <<>>
    /\ locationResp[1].data[1].attestation = <<>>
    /\ Len(attestations) >= 1

\* C11: a combined response that is non-2xx or carries no data ends the call
\* with the transport or no-data error; no observation was produced and no
\* second request was issued.
C11_MandatoryQueryFails ==
    (initialResp # <<>> /\ (~initialResp[1].ok \/ initialResp[1].data = <<>>))
        => /\ pc = "Failed"
           /\ error \in {GraphQLError, NoDataReturned}
           /\ ~initialResp[1].ok <=> error = GraphQLError
           /\ attestations = <<>>
           /\ locationAttestation = <<>>
           /\ Len(requests) = 1
           /\ requests[1].query = "GetAttestation"
           /\ locationResp = <<>>

\* C11's case: the combined query got a 2xx response without data
C11_Witness ==
    /\ initialResp = <<HttpNoData>>
    /\ pc = "Failed"
    /\ error = NoDataReturned

\* the requests of a run, as C15 orders them
RequestsWellOrdered ==
    /\ Len(requests) <= 2
    /\ Cardinality({i \in DOMAIN requests : requests[i].query = "GetAttestation"}) <= 1
    /\ Cardinality({i \in DOMAIN requests : requests[i].query = "GetLocationAttestation"}) <= 1
    /\ Len(requests) >= 1 => requests[1].query = "GetAttestation"
    /\ Len(requests) = 2
          => /\ requests[2].query = "GetLocationAttestation"
             /\ RootDecodes
             /\ requests[2].variables.uid \in RootLocationUIDs
             /\ requests[2].variables.uid = locationUID
             /\ locationUID \notin {Null, Undefined, ""}
             /\ requests[2].endpoint = requests[1].endpoint
    /\ error # NoError => pc = "Failed"

\* C15: in every run the combined query is issued at most once and first, the
\* location query at most once, only after the combined query returned data
\* from whose root payload a locationUID was extracted, and for that
\* locationUID; requests are only ever appended, and none is appended once the
\* run has failed.
C15_RequestOrder ==
    /\ []RequestsWellOrdered
    /\ [][/\ Len(requests') >= Len(requests)
          /\ SubSeq(requests', 1, Len(requests)) = requests
          /\ pc = "Failed" => requests' = requests]_vars

\* C15's case: the run failed after its second request
C15_Witness ==
    /\ pc = "Failed"
    /\ Len(requests) = 2

\* Idle (0), combined query pending (1), reference extracted and location
\* query pending (2), Done or Failed (3)
Rank(p) ==
    CASE p = "Idle" -> 0
      [] p = "AwaitInitial" -> 1
      [] p = "AwaitLocation" -> 2
      [] OTHER -> 3

\* C17: every step of a run moves it forward through Idle, RootFetched,
\* ReferenceExtracted, BoundaryResolved, Done/Failed; no step leaves Done or
\* Failed; and, every request being answered, the run reaches Done or Failed.
C17_ForwardAndTerminates ==
    /\ [][Rank(pc') > Rank(pc)]_vars
    /\ [][pc \notin {"Done", "Failed"}]_vars
    /\ <>(pc \in {"Done", "Failed"})

\* C17's case: a run went through every state and returned
C17_Witness ==
    /\ pc = "Done"
    /\ locationResp # <<>>
    /\ locationAttestation # <<>>

\* C19: when fetchMainAttestations has completed with a null, undefined or
\* empty locationUID, the call has returned: it issued exactly one request,
\* locationAttestation is null and the observations are those of the combined
\* response.  A second request is only ever issued for a non-empty locationUID.
C19_NoLocationUIDNoQuery ==
    /\ (pc \in {"AwaitLocation", "Done"} /\ locationUID \in {Null, Undefined, ""})
          => /\ pc = "Done"
             /\ error = NoError
             /\ Len(requests) = 1
             /\ locationResp = <<>>
             /\ locationAttestation = <<>>
             /\ Len(attestations) >= 1
             /\ attestations = [i \in 1..Len(ReturnedRefs) |-> Normalized(ReturnedRefs[i])]
    /\ Len(requests) = 2 => locationUID \notin {Null, Undefined, ""}

\* C19's case: the first draft returned, the root's payload having no locationUID
C19_Witness ==
    /\ pc = "Done"
    /\ variant = 1
    /\ locationUID = Undefined
    /\ Len(requests) = 1

\* C20: on every input whose root is present and decodes, the run of one
\* draft is what the other draft computes from the same responses: the same
\* error, or the same observations, the same decision to issue the location
\* query, the same location request and the same boundary.
C20_DraftsEquivalent ==
    RootDecodes
        => LET other == 3 - variant
               m == fetchMainAttestations(other, initialResp[1].data[1])
           IN  /\ m.threw # NoError => (pc = "Failed" /\ error = m.threw)
               /\ m.threw = NoError
                     => /\ attestations = m.attestations
                        /\ Len(requests) = IF SkipsLocationQuery(m.locationUID) THEN 1 ELSE 2
                        /\ Len(requests) = 2
                              => requests[2] = LocationRequest(endpoint, m.locationUID)
                        /\ pc = "Failed" => error = StoreUnreachable
                        /\ locationResp # <<>>
                              => /\ pc = "Done"
                                 /\ locationAttestation =
                                        fetchLocationData(other, locationResp[1]).value

\* C20's case: the first draft returned a boundary for a decodable root
C20_Witness ==
    /\ RootDecodes
    /\ variant = 1
    /\ pc = "Done"
    /\ locationAttestation # <<>>
    /\ Len(attestations) = 2

-----------------------------------------------------------------------------
(* What a call of testPolygonContainment was given, read off its arguments *)

\* the payload is a well-formed array of entries with a coordinates entry
HasGeometry(att) ==
    /\ att.data.kind = "json"
    /\ \E i \in DOMAIN att.data.entries : att.data.entries[i].name = "coordinates"

\* the text of that entry
GeometryText(att) ==
    att.data.entries[CHOOSE i \in DOMAIN att.data.entries :
                        att.data.entries[i].name = "coordinates"].value

\* the boundary's payload holds a closed ring
ValidBoundary ==
    /\ eLocationAttestation # <<>>
    /\ HasGeometry(eLocationAttestation[1])
    /\ GeometryText(eLocationAttestation[1]) \in {Square10, Square100}

\* the observation's payload holds a point
ValidObservation(att) == HasGeometry(att) /\ GeometryText(att) \in {"5,5", "50,50", "-3,4"}

\* the observations whose geometry does not decode
InvalidAt == {i \in DOMAIN eAttestations : ~ValidObservation(eAttestations[i])}

\* (5,5) lies in both squares, (50,50) only in the larger, (-3,4) in neither
ExpectedContained(ringText, pointText) ==
    \/ pointText = "5,5"
    \/ ringText = Square100 /\ pointText = "50,50"

\* C12: with a valid boundary and observations that all decode, the call does
\* not fail, and the list it returns is as long as the list of observations;
\* with no observation it returns the empty list.
C12_LengthPreserved ==
    (epc # "Idle" /\ ValidBoundary /\ InvalidAt = {})
        => /\ epc # "Failed"
           /\ eError = NoEvalError
           /\ epc = "Done"
                 => /\ Len(eReturned) = 1
                    /\ Len(eReturned[1]) = Len(eAttestations)
                    /\ Len(eAttestations) = 0 => eReturned[1] = <<>>

\* C12's case: the call returned for an empty list of observations
C12_Witness ==
    /\ epc = "Done"
    /\ ValidBoundary
    /\ eAttestations = <<>>
    /\ eReturned = << <<>> >>

\* C13: the returned list is in input order: entry i carries the uid of
\* observation i, its own decoded location, and whether that point lies in the
\* boundary's polygon.
C13_OrderPreserved ==
    epc = "Done"
        => /\ DOMAIN eReturned[1] = DOMAIN eAttestations
           /\ \A i \in DOMAIN eAttestations :
                 /\ eReturned[1][i].attestationId = eAttestations[i].uid
                 /\ eReturned[1][i].location.coordinates = GeometryText(eAttestations[i])
                 /\ eReturned[1][i].isContainedInPolygon =
                        ExpectedContained(GeometryText(eLocationAttestation[1]),
                                          GeometryText(eAttestations[i]))

\* C13's case: 0xBBB at (5,5) and 0xCCC at (50,50) against the square of side 10
C13_Witness ==
    /\ epc = "Done"
    /\ GeometryText(eLocationAttestation[1]) = Square10
    /\ Len(eReturned[1]) = 2
    /\ eReturned[1][1] = [attestationId |-> "0xBBB", location |-> [coordinates |-> "5,5"],
                          isContainedInPolygon |-> TRUE]
    /\ eReturned[1][2] = [attestationId |-> "0xCCC", location |-> [coordinates |-> "50,50"],
                          isContainedInPolygon |-> FALSE]

\* the first observation whose geometry does not decode
FirstInvalid == CHOOSE i \in InvalidAt : \A j \in InvalidAt : i <= j

\* C14: with a valid boundary and an observation whose geometry does not
\* decode, the call never returns a list, not even a partial one; it fails
\* with the error of the first such observation and processes none after it.
C14_FailFast ==
    (epc # "Idle" /\ ValidBoundary /\ InvalidAt # {})
        => /\ epc # "Done"
           /\ eReturned = <<>>
           /\ eIndex <= FirstInvalid
           /\ eIndex = FirstInvalid <=> epc = "Failed"
           /\ epc = "Failed"
                 => /\ eError.at = FirstInvalid
                    /\ eError.kind = IF HasGeometry(eAttestations[FirstInvalid])
                                     THEN "InvalidGeometry"
                                     ELSE "PayloadDecodeError"
                    /\ Len(containmentResults) = FirstInvalid - 1

\* C14's case: the second observation fails after the first was evaluated
C14_Witness ==
    /\ epc = "Failed"
    /\ eError.at = 2
    /\ Len(containmentResults) = 1
    /\ eReturned = <<>>

\* the positions of the calls of fn in the trace
CallsOf(fn) == {i \in DOMAIN calls : calls[i].fn = fn}

\* C18: in one call the boundary is decoded once and the polygon built once,
\* as the first two calls, before any observation is touched and also when
\* there is none; the polygon is that of the boundary's payload and does not
\* change once built.
C18_PolygonBuiltOnce ==
    /\ [](/\ Cardinality(CallsOf("polygon")) <= 1
          /\ epc \in {"Mapping", "Done"}
                => /\ CallsOf("polygon") = {2}
                   /\ calls[1] = [fn |-> "extractLocationFromAttestation",
                                  arg |-> eLocationAttestation[1].uid]
                   /\ turfPolygon =
                         <<[type |-> "Polygon",
                            coordinates |-> RingsOf(GeometryText(eLocationAttestation[1]))]>>
          /\ \A i \in DOMAIN calls :
                (i > 1 /\ calls[i].fn = "extractLocationFromAttestation")
                    => /\ i > 2
                       /\ calls[i].arg # eLocationAttestation[1].uid
          /\ \A i \in CallsOf("booleanContains") \cup CallsOf("point") : i > 2)
    /\ [][turfPolygon # <<>> => turfPolygon' = turfPolygon]_allVars

\* C18's case: the call returned for an empty list, the polygon built all the same
C18_Witness ==
    /\ epc = "Done"
    /\ eAttestations = <<>>
    /\ CallsOf("polygon") = {2}
    /\ turfPolygon # <<>>

-----------------------------------------------------------------------------
(* Two calls of fetchAttestations on one client, interleaved at their awaits *)

\* the two calls
Runs == {1, 2}

\* the root id each call is given
ConcRootOf(p) == IF p = 1 THEN "0xAAA" ELSE "0xBBB"

\* the chain ids the calls are given
ConcChainIds == {1, 10, 137}

\* what the transport does with a request: the store answers, the server
\* answers with an error status, it answers without data, fetch() rejects
Transports == {"ok", "http", "nodata", "rejected"}

\* the records a store may hold, in the order it returns them: each slot is
\* absent or holds one of its records
StoreSlots ==
    << {RawAttestation("0xAAA", "0xS1", ZeroUID, Json(<<Entry("locationUID", "0xLOC")>>)),
        RawAttestation("0xAAA", "0xS1", ZeroUID, MalformedJson)},
       {RawAttestation("0xBBB", "0xS1", "0xAAA",
                       Json(<<Entry("coordinates", "5,5"), Entry("locationUID", "0xLOC")>>)),
        RawAttestation("0xBBB", "0xS1", "0xAAA", Json(<<Entry("coordinates", "5,5")>>))},
       {RawAttestation("0xCCC", "0xS1", "0xAAA", Json(<<Entry("coordinates", "50,50")>>))},
       {RawAttestation("0xDDD", "0xS1", "0xBBB", Json(<<Entry("coordinates", "5,5")>>))},
       {RawAttestation("0xLOC", "0xS2", ZeroUID, Json(<<Entry("coordinates", Square10)>>))} >>

RECURSIVE StoresFrom(_)
StoresFrom(k) ==
    IF k > Len(StoreSlots) THEN {<<>>}
    ELSE LET rest == StoresFrom(k + 1)
         IN  rest \cup {<<r>> \o st : r \in StoreSlots[k], st \in rest}

Stores == StoresFrom(1)

\* attestation(where: { id: $uid }) evaluated by the store
StoreAttestation(store, uid) == SelectSeq(store, LAMBDA r : r.id = uid)

\* attestations(where: { refUID: {equals: $uid} }) evaluated by the store
StoreReferencing(store, uid) == SelectSeq(store, LAMBDA r : r.refUID = uid)

\* the response fetch() resolves with for a request, under transport t
Respond(store, req, t) ==
    CASE t = "http" -> HttpError
      [] t = "nodata" -> HttpNoData
      [] OTHER ->
            IF req.query = "GetAttestation"
            THEN HttpData([attestation |-> StoreAttestation(store, req.variables.uid),
                           attestations |-> <<StoreReferencing(store, req.variables.uid)>>])
            ELSE HttpData([attestation |-> StoreAttestation(store, req.variables.uid),
                           attestations |-> <<>>])

\* a slip: the locals of fetchAttestations kept in fields of the client
Frame_Shared(p) == 1

\* the frame holding the locals of call p: endpoint, attestations,
\* locationUID and locationAttestation are consts of the call's own body
Frame(p) == p

NoResult == [attestations |-> <<>>, locationAttestation |-> <<>>]

\* the promise of call p is rejected with e
ConcThrow(p, e) ==
    crun' = [crun EXCEPT ![p].pc = "Failed", ![p].error = e, ![p].pending = <<>>]

\* call p of fetchAttestations(c, ConcRootOf(p)) up to its first await
ConcFetchAttestations(p, c) ==
    /\ crun[p].pc = "Idle"
    /\ clocals' = [clocals EXCEPT ![Frame(p)].endpoint = getEndpoint(c)]
    /\ IF getEndpoint(c) = Null
       THEN crun' = [crun EXCEPT ![p].pc = "Failed", ![p].error = UnsupportedChain,
                                 ![p].chainId = c, ![p].attestationId = ConcRootOf(p)]
       ELSE crun' = [crun EXCEPT ![p].pc = "AwaitInitial",
                                 ![p].chainId = c, ![p].attestationId = ConcRootOf(p),
                                 ![p].pending =
                                     <<InitialRequest(getEndpoint(c), ConcRootOf(p))>>]
    /\ UNCHANGED <<cstore, cvariant>>
    /\ UNCHANGED <<vars, evalVars>>

\* call p's combined query settles under transport t: the rest of
\* fetchMainAttestations, then fetchLocationData up to its await
ConcInitialResponse(p, t) ==
    /\ crun[p].pc = "AwaitInitial"
    /\ LET resp == Respond(cstore, crun[p].pending[1], t)
           got == fetchInitialAttestations(resp)
           main == fetchMainAttestations(cvariant, got.data[1])
           met == [crun EXCEPT ![p].t1 = t]
       IN  IF t = "rejected"
           THEN /\ crun' = [met EXCEPT ![p].pc = "Failed", ![p].error = StoreUnreachable,
                                       ![p].pending = <<>>]
                /\ UNCHANGED clocals
           ELSE IF got.threw # NoError
           THEN /\ crun' = [met EXCEPT ![p].pc = "Failed", ![p].error = got.threw,
                                       ![p].pending = <<>>]
                /\ UNCHANGED clocals
           ELSE IF main.threw # NoError
           THEN /\ crun' = [met EXCEPT ![p].pc = "Failed", ![p].error = main.threw,
                                       ![p].pending = <<>>]
                /\ UNCHANGED clocals
           ELSE IF SkipsLocationQuery(main.locationUID)
           THEN /\ clocals' = [clocals EXCEPT ![Frame(p)].attestations = main.attestations,
                                              ![Frame(p)].locationUID = main.locationUID,
                                              ![Frame(p)].locationAttestation = <<>>]
                /\ crun' = [met EXCEPT ![p].pc = "Done", ![p].pending = <<>>,
                                       ![p].result =
                                           [attestations |-> main.attestations,
                                            locationAttestation |-> <<>>]]
           ELSE /\ clocals' = [clocals EXCEPT ![Frame(p)].attestations = main.attestations,
                                              ![Frame(p)].locationUID = main.locationUID]
                /\ crun' = [met EXCEPT ![p].pc = "AwaitLocation",
                                       ![p].pending =
                                           <<LocationRequest(clocals[Frame(p)].endpoint,
                                                             main.locationUID)>>]
    /\ UNCHANGED <<cstore, cvariant>>
    /\ UNCHANGED <<vars, evalVars>>

\* call p's location query settles under transport t: the rest of
\* fetchLocationData, then the return of fetchAttestations
ConcLocationResponse(p, t) ==
    /\ crun[p].pc = "AwaitLocation"
    /\ LET resp == Respond(cstore, crun[p].pending[1], t)
           loc == fetchLocationData(cvariant, resp)
           met == [crun EXCEPT ![p].t2 = t]
       IN  IF t = "rejected"
           THEN /\ crun' = [met EXCEPT ![p].pc = "Failed", ![p].error = StoreUnreachable,
                                       ![p].pending = <<>>]
                /\ UNCHANGED clocals
           ELSE IF loc.threw # NoError
           THEN /\ crun' = [met EXCEPT ![p].pc = "Failed", ![p].error = loc.threw,
                                       ![p].pending = <<>>]
                /\ UNCHANGED clocals
           ELSE /\ clocals' = [clocals EXCEPT ![Frame(p)].locationAttestation = loc.value]
                /\ crun' = [met EXCEPT ![p].pc = "Done", ![p].pending = <<>>,
                                       ![p].result =
                                           [attestations |-> clocals[Frame(p)].attestations,
                                            locationAttestation |-> loc.value]]
    /\ UNCHANGED <<cstore, cvariant>>
    /\ UNCHANGED <<vars, evalVars>>

\* a client of either draft over some store, no call made yet
ConcInit ==
    /\ ResolveIdle
    /\ EvalIdle
    /\ cstore \in Stores
    /\ cvariant \in {1, 2}
    /\ ConcRunsIdle

ConcNext ==
    \/ \E p \in Runs, c \in ConcChainIds : ConcFetchAttestations(p, c)
    \/ \E p \in Runs, t \in Transports : ConcInitialResponse(p, t)
    \/ \E p \in Runs, t \in Transports : ConcLocationResponse(p, t)

SpecConc == ConcInit /\ [][ConcNext]_allVars

\* fetchAttestations(c, id) of draft v run alone against store, its two
\* queries settling under transports t1 and t2: where it ends and with what
ResolveAlone(v, c, id, store, t1, t2) ==
    LET ep == getEndpoint(c)
        got == fetchInitialAttestations(Respond(store, InitialRequest(ep, id), t1))
        main == fetchMainAttestations(v, got.data[1])
        loc == fetchLocationData(v, Respond(store, LocationRequest(ep, main.locationUID), t2))
        Fails(e) == [pc |-> "Failed", error |-> e, result |-> NoResult]
    IN  IF ep = Null THEN Fails(UnsupportedChain)
        ELSE IF t1 = "rejected" THEN Fails(StoreUnreachable)
        ELSE IF got.threw # NoError THEN Fails(got.threw)
        ELSE IF main.threw # NoError THEN Fails(main.threw)
        ELSE IF SkipsLocationQuery(main.locationUID)
        THEN [pc |-> "Done", error |-> NoError,
              result |-> [attestations |-> main.attestations,
                          locationAttestation |-> <<>>]]
        ELSE IF t2 = "rejected" THEN Fails(StoreUnreachable)
        ELSE IF loc.threw # NoError THEN Fails(loc.threw)
        ELSE [pc |-> "Done", error |-> NoError,
              result |-> [attestations |-> main.attestations,
                          locationAttestation |-> loc.value]]

\* where call p ended and with what
OutcomeOf(p) == [pc |-> crun[p].pc, error |-> crun[p].error, result |-> crun[p].result]

Settled(p) == crun[p].pc \in {"Done", "Failed"}

\* C16: two calls for different root ids, interleaved in any order at their
\* awaits, do not touch each other: a step of one call leaves the other
\* call's position, request, outcome and locals as they were and never
\* writes the store, and each call ends exactly as it ends when run alone
\* against the same store under the same transport behaviour.
C16_ConcurrentIsolation ==
    /\ [](\A p \in Runs :
             Settled(p) =>
                 OutcomeOf(p) = ResolveAlone(cvariant, crun[p].chainId, ConcRootOf(p),
                                             cstore, crun[p].t1, crun[p].t2))
    /\ [][/\ cstore' = cstore
          /\ \A p \in Runs :
                crun'[p] # crun[p] =>
                    \A q \in Runs \ {p} :
                        /\ crun'[q] = crun[q]
                        /\ clocals'[q] = clocals[q]]_allVars

\* C16's case: both calls returned, on different chains and with different
\* observation lists, the second call's first query having settled while
\* the first call awaited its location query
C16_Witness ==
    /\ crun[1].pc = "Done"
    /\ crun[2].pc = "Done"
    /\ crun[1].chainId # crun[2].chainId
    /\ crun[1].t2 = "ok"
    /\ crun[1].result.locationAttestation # <<>>
    /\ crun[1].result.attestations # crun[2].result.attestations
    /\ Len(crun[1].result.attestations) = 2
    /\ Len(crun[2].result.attestations) = 1
    /\ clocals[2].attestations = crun[2].result.attestations
    /\ clocals[1].attestations = crun[1].result.attestations

=============================================================================
